---- MODULE Spec2Model ----
(***************************************************************************)
(* Model of the care-home monthly calendar (src/main.py): the aggregation  *)
(* pipeline seat_activity_into_calendar, its time normaliser, and the      *)
(* per-cell text loop of draw_calendar_pdf.                                *)
(*                                                                         *)
(* Text is a sequence of characters, each character a one-letter string;   *)
(* a non-ASCII character is written by its code point ("U+2019").  Python's *)
(* None is the one-element sequence <<"None">>, which is no text.          *)
(* Lengths on the page are in tenths of a millimetre.                      *)
(***************************************************************************)
EXTENDS Integers, Sequences, FiniteSets, TLC

VARIABLES
    year, month,          \* arguments of seat_activity_into_calendar
    bank_data,            \* events of the bank-holiday payload, region by region
    rota_df,              \* rows of the staff rota
    rules,                \* fixed weekly rules
    activities_df,        \* rows of the activities table
    include_holidays,
    daymap,               \* date -> sequence of events
    fixed_rules,          \* expanded weekly rules
    activities,           \* placed activities
    all_events,           \* fixed_rules + activities
    pc,                   \* position in seat_activity_into_calendar
    cell_texts,           \* date -> text blob of the preview (session state)
    t_in, t_out,          \* argument and result of one normalize_time call
    cell_day,             \* day of the cell being drawn (0: none yet)
    text_y,               \* vertical cursor of the cell
    subs_left,            \* sub-lines of the current logical line not yet drawn
    drawn,                \* heights at which the cell's drawString calls happened
    last_style,           \* style of the latest sub-line drawn
    dpc                   \* position in draw_calendar_pdf

vars == << year, month, bank_data, rota_df, rules, activities_df, include_holidays,
           daymap, fixed_rules, activities, all_events, pc, cell_texts, t_in, t_out,
           cell_day, text_y, subs_left, drawn, last_style, dpc >>

pipeVars == << year, month, bank_data, rota_df, rules, activities_df, include_holidays,
               daymap, fixed_rules, activities, all_events, pc, cell_texts >>
timeVars == << t_in, t_out >>
drawVars == << cell_day, text_y, subs_left, drawn, last_style, dpc >>

None == <<"None">>

(***************************************************************************)
(* Text helpers: str.strip, str.lower, str.replace, clean_text.            *)
(***************************************************************************)
SeqsUpTo(S, n) == UNION {[1..k -> S] : k \in 0..n}

Digits == {"0", "1", "2", "3", "4", "5", "6", "7", "8", "9"}

Whitespace == {" ", "\t", "\n", "\r"}

UpperLetters == <<"A","B","C","D","E","F","G","H","I","J","K","L","M",
                  "N","O","P","Q","R","S","T","U","V","W","X","Y","Z">>

LowerLetters == <<"a","b","c","d","e","f","g","h","i","j","k","l","m",
                  "n","o","p","q","r","s","t","u","v","w","x","y","z">>

UpperSet == {UpperLetters[i] : i \in 1..Len(UpperLetters)}

LowerMap == [c \in UpperSet |-> LowerLetters[CHOOSE i \in 1..Len(UpperLetters) : UpperLetters[i] = c]]

LowerChar(c) == IF c \in UpperSet THEN LowerMap[c] ELSE c

Lower(s) == [i \in 1..Len(s) |-> LowerChar(s[i])]

LowerSet == {LowerLetters[i] : i \in 1..Len(LowerLetters)}

UpperMap == [c \in LowerSet |-> UpperLetters[CHOOSE i \in 1..Len(LowerLetters) : LowerLetters[i] = c]]

UpperChar(c) == IF c \in LowerSet THEN UpperMap[c] ELSE c

Upper(s) == [i \in 1..Len(s) |-> UpperChar(s[i])]

RECURSIVE LStrip(_)
LStrip(s) == IF s # <<>> /\ Head(s) \in Whitespace THEN LStrip(Tail(s)) ELSE s

RECURSIVE RStrip(_)
RStrip(s) ==
    IF s # <<>> /\ s[Len(s)] \in Whitespace THEN RStrip(SubSeq(s, 1, Len(s) - 1)) ELSE s

Strip(s) == RStrip(LStrip(s))

RECURSIVE Flatten(_)
Flatten(ss) == IF ss = <<>> THEN <<>> ELSE Head(ss) \o Flatten(Tail(ss))

\* The characters clean_text rewrites, and what it writes for them.
CleanReplacement(c) ==
    CASE c = "U+2013" -> <<"-">>
      [] c = "U+2014" -> <<"-">>
      [] c = "U+2018" -> <<"'">>
      [] c = "U+2019" -> <<"'">>
      [] c = "U+201C" -> <<"\"">>
      [] c = "U+201D" -> <<"\"">>
      [] c = "U+2026" -> <<".", ".", ".">>
      [] c = "U+00A0" -> <<" ">>
      [] OTHER -> <<c>>

\* Every other character outside ASCII: clean_text deletes it.
IsAscii(c) == c \notin {"U+2013", "U+2014", "U+2018", "U+2019", "U+201C", "U+201D",
                        "U+2026", "U+00A0", "U+00E9", "U+212A"}

clean_text(s) ==
    LET replaced == Flatten([i \in 1..Len(s) |-> CleanReplacement(s[i])])
    IN  Strip(SelectSeq(replaced, IsAscii))

(***************************************************************************)
(* normalize_time and its pattern ^(\d{1,2})(?::?(\d{2}))?$                *)
(***************************************************************************)
AllDigits(s) == \A i \in 1..Len(s) : s[i] \in Digits

ReplaceDots(s) == [i \in 1..Len(s) |-> IF s[i] = "." THEN ":" ELSE s[i]]

RemoveSpaces(s) == SelectSeq(s, LAMBDA c : c # " ")

\* A minute group that insists on the colon.
MinuteGroupColon(rest) ==
    IF rest = <<>> THEN <<>>
    ELSE IF Head(rest) = ":" /\ Len(rest) = 3 /\ AllDigits(Tail(rest)) THEN Tail(rest)
         ELSE None

\* The rest of the text after an hour group: nothing, or an optional colon
\* and exactly two digits.
MinuteGroup(rest) ==
    IF rest = <<>> THEN <<>>
    ELSE LET body == IF Head(rest) = ":" THEN Tail(rest) ELSE rest
         IN  IF Len(body) = 2 /\ AllDigits(body) THEN body ELSE None

\* The hour group takes two digits first and gives one back when the rest
\* does not match; the result is <<hour, minute>>, or None without a match.
time_pattern(s) ==
    LET try(h) ==
            IF Len(s) >= h /\ AllDigits(SubSeq(s, 1, h))
               /\ MinuteGroup(SubSeq(s, h + 1, Len(s))) # None
            THEN <<SubSeq(s, 1, h), MinuteGroup(SubSeq(s, h + 1, Len(s)))>>
            ELSE None
    IN  IF try(2) # None THEN try(2) ELSE try(1)

zfill2(s) == IF Len(s) < 2 THEN <<"0">> \o s ELSE s

normalize_time(t) ==
    IF t = None \/ t = <<>> THEN None
    ELSE LET t2 == RemoveSpaces(ReplaceDots(Lower(Strip(t))))
             m  == time_pattern(t2)
         IN  IF m = None THEN None
             ELSE zfill2(m[1]) \o <<":">> \o (IF m[2] = <<>> THEN <<"0", "0">> ELSE m[2])

(***************************************************************************)
(* Dates: datetime.date as <<year, month, day>>, calendar.monthrange,      *)
(* date.weekday (Monday = 0).                                              *)
(***************************************************************************)
BadDate == <<0, 0, 0>>

isleap(y) == y % 4 = 0 /\ (y % 100 # 0 \/ y % 400 = 0)

mdays == <<31, 28, 31, 30, 31, 30, 31, 31, 30, 31, 30, 31>>

\* A month length that forgets leap years.
monthrange_days_noleap(y, m) == mdays[m]

monthrange_days(y, m) == IF m = 2 /\ isleap(y) THEN 29 ELSE mdays[m]

RECURSIVE days_before_month(_, _)
days_before_month(y, m) ==
    IF m = 1 THEN 0 ELSE days_before_month(y, m - 1) + monthrange_days(y, m - 1)

toordinal(d) ==
    LET y1 == d[1] - 1
    IN  y1 * 365 + (y1 \div 4) - (y1 \div 100) + (y1 \div 400)
        + days_before_month(d[1], d[2]) + d[3]

weekday(d) == (toordinal(d) + 6) % 7

month_date_range(y, m) == << <<y, m, 1>>, <<y, m, monthrange_days(y, m)>> >>

\* first + timedelta(days=i), for the offsets the day map uses.
date_plus(first, i) == <<first[1], first[2], first[3] + i>>

new_daymap(y, m) ==
    LET first == month_date_range(y, m)[1]
        last  == month_date_range(y, m)[2]
        keys  == {date_plus(first, i) : i \in 0..(toordinal(last) - toordinal(first))}
    IN  [d \in keys |-> <<>>]

\* datetime.date orders by year, then month, then day.
date_le(a, b) ==
    \/ a[1] < b[1]
    \/ a[1] = b[1] /\ a[2] < b[2]
    \/ a[1] = b[1] /\ a[2] = b[2] /\ a[3] <= b[3]

\* The keys of a day map in chronological order (sorted(daymap.keys()), and
\* the insertion order a dict iterates in).
RECURSIVE sorted_dates(_)
sorted_dates(S) ==
    IF S = {} THEN <<>>
    ELSE LET d == CHOOSE x \in S : \A z \in S : date_le(x, z)
         IN  <<d>> \o sorted_dates(S \ {d})

Event(time, title, notes) == [time |-> time, title |-> title, notes |-> notes]

DatedEvent(date, time, title, notes) ==
    [date |-> date, time |-> time, title |-> title, notes |-> notes]

(***************************************************************************)
(* Stage 1: holidays.                                                      *)
(***************************************************************************)
\* The events of the payload that fall in the month, titles cleaned.
\* An entry whose date does not parse carries BadDate and is skipped.
fetch_uk_bank_holidays(data, y, m) ==
    LET keep(ev) == ev.date # BadDate /\ ev.date[1] = y /\ ev.date[2] = m
        kept == SelectSeq(data, keep)
    IN  [i \in 1..Len(kept) |->
            [date |-> kept[i].date, title |-> clean_text(kept[i].title)]]

static_list ==
    <<
      [day |-> 1,
        title |-> <<"W","o","r","l","d"," ","V","e","g","a","n"," ","D","a","y">>],
      [day |-> 1,
        title |-> <<"A","l","l"," ","S","a","i","n","t","s","'"," ","D","a","y">>],
      [day |-> 2,
        title |-> <<"A","l","l"," ","S","o","u","l","s","U+2019"," ","D","a","y">>],
      [day |-> 5,
        title |-> <<"B","o","n","f","i","r","e"," ","N","i","g","h","t"," ","(","U","K",
                    ")">>],
      [day |-> 11,
        title |-> <<"R","e","m","e","m","b","r","a","n","c","e"," ","D","a","y"," ","(",
                    "U","K",")">>],
      [day |-> 13,
        title |-> <<"W","o","r","l","d"," ","K","i","n","d","n","e","s","s"," ","D","a",
                    "y">>],
      [day |-> 14,
        title |-> <<"W","o","r","l","d"," ","D","i","a","b","e","t","e","s"," ","D","a",
                    "y">>],
      [day |-> 16,
        title |-> <<"I","n","t","e","r","n","a","t","i","o","n","a","l"," ","D","a","y",
                    " ","f","o","r"," ","T","o","l","e","r","a","n","c","e">>],
      [day |-> 19,
        title |-> <<"I","n","t","e","r","n","a","t","i","o","n","a","l"," ","M","e","n",
                    "U+2019","s"," ","D","a","y">>],
      [day |-> 20,
        title |-> <<"U","n","i","v","e","r","s","a","l"," ","C","h","i","l","d","r","e",
                    "n","U+2019","s"," ","D","a","y">>],
      [day |-> 25,
        title |-> <<"I","n","t","e","r","n","a","t","i","o","n","a","l"," ","D","a","y",
                    " ","f","o","r"," ","t","h","e"," ","E","l","i","m","i","n","a","t",
                    "i","o","n"," ","o","f"," ","V","i","o","l","e","n","c","e"," ","A",
                    "g","a","i","n","s","t"," ","W","o","m","e","n">>],
      [day |-> 30,
        title |-> <<"S","t"," ","A","n","d","r","e","w","U+2019","s"," ","D","a","y",
                    " ","(","S","c","o","t","l","a","n","d",")">>]
    >>

fetch_awareness_days(y, m) ==
    LET dated == [i \in 1..Len(static_list) |->
                    [date |-> <<y, 11, static_list[i].day>>, title |-> static_list[i].title]]
    IN  SelectSeq(dated, LAMBDA ev : ev.date[1] = y /\ ev.date[2] = m)

\* A key on the raw title: no cleaning, trimming or lowercasing.
holiday_key_raw(ev) == <<ev.date, ev.title>>

holiday_key(ev) == <<ev.date, Lower(Strip(clean_text(ev.title)))>>

\* The loop over combined_holidays: st is <<daymap, seen_holidays>>.
RECURSIVE insert_holidays(_, _, _)
insert_holidays(dm, seen, evs) ==
    IF evs = <<>> THEN dm
    ELSE LET ev  == Head(evs)
             key == holiday_key(ev)
         IN  IF key \in seen
             THEN insert_holidays(dm, seen, Tail(evs))
             ELSE insert_holidays(
                    IF ev.date \in DOMAIN dm
                    THEN [dm EXCEPT ![ev.date] = Append(@, Event(None, ev.title, "Holiday"))]
                    ELSE dm,
                    seen \cup {key},
                    Tail(evs))

(***************************************************************************)
(* Stage 2: staff shifts.                                                  *)
(***************************************************************************)
RECURSIVE strip_trailing_digits(_)
strip_trailing_digits(s) ==
    IF s # <<>> /\ s[Len(s)] \in Digits
    THEN strip_trailing_digits(SubSeq(s, 1, Len(s) - 1))
    ELSE s

\* re.sub(r"\s*\d+$", "", staff)
strip_staff_number(s) ==
    IF s # <<>> /\ s[Len(s)] \in Digits THEN RStrip(strip_trailing_digits(s)) ELSE s

shift_display(r) ==
    LET staff == strip_staff_number(clean_text(r.staff))
        start == Strip(r.shift_start)
        end   == Strip(r.shift_end)
        shift_time == IF start # <<>> /\ end # <<>>
                      THEN <<"(">> \o start \o <<" ", "U+2013", " ">> \o end \o <<")">>
                      ELSE <<>>
    IN  Strip(staff \o <<" ">> \o shift_time)

RECURSIVE insert_shifts(_, _)
insert_shifts(dm, rows) ==
    IF rows = <<>> THEN dm
    ELSE LET r == Head(rows)
         IN  IF r.date # BadDate /\ r.date \in DOMAIN dm /\ shift_display(r) # <<>>
             THEN insert_shifts(
                    [dm EXCEPT ![r.date] = Append(@, Event(None, shift_display(r), "staff shift"))],
                    Tail(rows))
             ELSE insert_shifts(dm, Tail(rows))

(***************************************************************************)
(* Stage 3: fixed weekly rules.                                            *)
(***************************************************************************)
expand_rule(rule, dates) ==
    LET hits == SelectSeq(dates, LAMBDA d : weekday(d) = rule.weekday)
    IN  [i \in 1..Len(hits) |-> DatedEvent(hits[i], rule.time, clean_text(rule.title), "fixed")]

expand_rules(rs, dates) == Flatten([i \in 1..Len(rs) |-> expand_rule(rs[i], dates)])

(***************************************************************************)
(* Stage 4: regular activities (the placement loop).                       *)
(***************************************************************************)
\* str.split(sep): the pieces between the separators, empty ones included.
RECURSIVE Split(_, _)
Split(s, sep) ==
    IF \A i \in 1..Len(s) : s[i] # sep THEN <<s>>
    ELSE LET k == CHOOSE i \in 1..Len(s) : s[i] = sep /\ \A j \in 1..(i - 1) : s[j] # sep
         IN  <<SubSeq(s, 1, k - 1)>> \o Split(SubSeq(s, k + 1, Len(s)), sep)

First3(s) == SubSeq(s, 1, IF Len(s) < 3 THEN Len(s) ELSE 3)

\* [p.strip()[:3].lower() for p in pref_days if p.strip()]
pref_days_of(text) ==
    LET parts == SelectSeq(Split(text, ";"), LAMBDA p : Strip(p) # <<>>)
    IN  {Lower(First3(Strip(parts[i]))) : i \in 1..Len(parts)}

DigitSeq == <<"0", "1", "2", "3", "4", "5", "6", "7", "8", "9">>

DigitVal(c) == (CHOOSE i \in 1..Len(DigitSeq) : DigitSeq[i] = c) - 1

RECURSIVE ParseInt(_)
ParseInt(s) ==
    IF s = <<>> THEN 0 ELSE ParseInt(SubSeq(s, 1, Len(s) - 1)) * 10 + DigitVal(s[Len(s)])

\* int(frequency) if str(frequency).isdigit() else 0
freq_of(text) == IF text # <<>> /\ AllDigits(text) THEN ParseInt(text) ELSE 0

day_name3 == << <<"m","o","n">>, <<"t","u","e">>, <<"w","e","d">>, <<"t","h","u">>,
                <<"f","r","i">>, <<"s","a","t">>, <<"s","u","n">> >>

dow3(d) == day_name3[weekday(d) + 1]

\* The loop over sorted(daymap.keys()) for one row: placed counts the events
\* emitted so far; the loop breaks once a positive freq is reached.
\* A cap tested one placement late.
RECURSIVE place_late(_, _, _, _, _, _)
place_late(name, pref_days, pref_time, freq, dates, placed) ==
    IF dates = <<>> \/ (freq # 0 /\ placed > freq) THEN <<>>
    ELSE IF dow3(Head(dates)) \in pref_days
         THEN <<DatedEvent(Head(dates), pref_time, name, "activity")>>
              \o place_late(name, pref_days, pref_time, freq, Tail(dates), placed + 1)
         ELSE place_late(name, pref_days, pref_time, freq, Tail(dates), placed)

RECURSIVE place(_, _, _, _, _, _)
place(name, pref_days, pref_time, freq, dates, placed) ==
    IF dates = <<>> \/ (freq # 0 /\ placed >= freq) THEN <<>>
    ELSE IF dow3(Head(dates)) \in pref_days
         THEN <<DatedEvent(Head(dates), pref_time, name, "activity")>>
              \o place(name, pref_days, pref_time, freq, Tail(dates), placed + 1)
         ELSE place(name, pref_days, pref_time, freq, Tail(dates), placed)

place_row(r, dates) ==
    LET name      == clean_text(r.name)
        pref_days == pref_days_of(r.preferred_days)
        pref_time == Strip(r.preferred_time)
        freq      == freq_of(r.frequency)
    IN  place(name, pref_days, pref_time, freq, dates, 0)

place_rows(rows, dates) == Flatten([i \in 1..Len(rows) |-> place_row(rows[i], dates)])

(***************************************************************************)
(* Stage 5: merge, deduplicate, sort.                                      *)
(***************************************************************************)
normalize_events(evs) == [i \in 1..Len(evs) |-> [evs[i] EXCEPT !.time = normalize_time(@)]]

\* Any same-title event counts as a repeat, whatever its time.
has_exact_any_time(duplicates, time_norm) == duplicates # <<>>

has_exact(duplicates, time_norm) ==
    \E i \in 1..Len(duplicates) : duplicates[i].time = time_norm

has_proper(duplicates) ==
    \E i \in 1..Len(duplicates) :
        duplicates[i].time # None /\ duplicates[i].time # <<>> /\ Len(duplicates[i].time) = 5

\* One pass of the merge loop: the day map after candidate ev.
merge_one(dm, ev) ==
    IF ev.date \notin DOMAIN dm THEN dm
    ELSE LET title_norm == Strip(Lower(ev.title))
             time_norm  == ev.time
             duplicates == SelectSeq(dm[ev.date],
                                     LAMBDA e : Strip(Lower(e.title)) = title_norm)
         IN  IF duplicates # <<>>
                /\ (has_exact(duplicates, time_norm)
                    \/ (has_proper(duplicates) /\ (time_norm = None \/ time_norm = <<>>)))
             THEN dm
             ELSE [dm EXCEPT ![ev.date] = Append(@, Event(time_norm, ev.title, ev.notes))]

RECURSIVE merge_all(_, _)
merge_all(dm, evs) ==
    IF evs = <<>> THEN dm ELSE merge_all(merge_one(dm, Head(evs)), Tail(evs))

EndOfDay == 23 * 60 + 59

\* sort_key, as minutes since midnight: dt.time(h, m) raises outside 0..23
\* and 0..59, and the except branch answers 23:59.
sort_key(e) ==
    IF e.time = None \/ e.time = <<>> THEN EndOfDay
    ELSE LET parts == Split(e.time, ":")
         IN  IF Len(parts) = 2 /\ parts[1] # <<>> /\ parts[2] # <<>>
                /\ AllDigits(parts[1]) /\ AllDigits(parts[2])
                /\ ParseInt(parts[1]) <= 23 /\ ParseInt(parts[2]) <= 59
             THEN ParseInt(parts[1]) * 60 + ParseInt(parts[2])
             ELSE EndOfDay

\* Staff shifts ranked before holidays.
category_priority_swapped(e) ==
    IF e.notes = "Holiday" THEN 1 ELSE IF e.notes = "staff shift" THEN 0 ELSE 2

category_priority(e) ==
    IF e.notes = "Holiday" THEN 0 ELSE IF e.notes = "staff shift" THEN 1 ELSE 2

key_le(a, b) ==
    \/ category_priority(a) < category_priority(b)
    \/ category_priority(a) = category_priority(b) /\ sort_key(a) <= sort_key(b)

\* list.sort is stable: an event goes after every event whose key is not greater.
RECURSIVE insert_sorted(_, _)
insert_sorted(sorted, e) ==
    IF sorted = <<>> THEN <<e>>
    ELSE IF key_le(sorted[Len(sorted)], e) THEN Append(sorted, e)
         ELSE Append(insert_sorted(SubSeq(sorted, 1, Len(sorted) - 1), e), sorted[Len(sorted)])

RECURSIVE stable_sort(_)
stable_sort(evs) ==
    IF evs = <<>> THEN <<>>
    ELSE insert_sorted(stable_sort(SubSeq(evs, 1, Len(evs) - 1)), evs[Len(evs)])

sort_days(dm) == [d \in DOMAIN dm |-> stable_sort(dm[d])]

(***************************************************************************)
(* seat_activity_into_calendar, stage by stage.                            *)
(***************************************************************************)
TimeIdle == t_in = <<>> /\ t_out = <<"idle">>

DrawIdle ==
    /\ cell_day = 0 /\ text_y = 0 /\ subs_left = 0
    /\ drawn = {} /\ last_style = "none" /\ dpc = "idle"

PipeIdle ==
    /\ year = 0 /\ month = 0 /\ bank_data = <<>> /\ rota_df = <<>> /\ rules = <<>>
    /\ activities_df = <<>> /\ include_holidays = FALSE /\ daymap = <<>>
    /\ fixed_rules = <<>> /\ activities = <<>> /\ all_events = <<>> /\ pc = "idle"
    /\ cell_texts = <<>>

\* The call seat_activity_into_calendar(y, m, acts, rota, rls, incl) about to run.
PipeStart(y, m, bank, rota, rls, acts, incl) ==
    /\ year = y /\ month = m /\ bank_data = bank /\ rota_df = rota /\ rules = rls
    /\ activities_df = acts /\ include_holidays = incl
    /\ daymap = <<>> /\ fixed_rules = <<>> /\ activities = <<>> /\ all_events = <<>>
    /\ pc = "start" /\ cell_texts = <<>>

inputs == << year, month, bank_data, rota_df, rules, activities_df, include_holidays >>

BuildDayMap ==
    /\ pc = "start"
    /\ daymap' = new_daymap(year, month)
    /\ pc' = "holidays"
    /\ UNCHANGED << inputs, fixed_rules, activities, all_events, cell_texts, timeVars, drawVars >>

Holidays ==
    /\ pc = "holidays"
    /\ daymap' = IF include_holidays
                 THEN insert_holidays(daymap, {},
                        fetch_uk_bank_holidays(bank_data, year, month)
                        \o fetch_awareness_days(year, month))
                 ELSE daymap
    /\ pc' = "shifts"
    /\ UNCHANGED << inputs, fixed_rules, activities, all_events, cell_texts, timeVars, drawVars >>

StaffShifts ==
    /\ pc = "shifts"
    /\ daymap' = insert_shifts(daymap, rota_df)
    /\ pc' = "rules"
    /\ UNCHANGED << inputs, fixed_rules, activities, all_events, cell_texts, timeVars, drawVars >>

FixedWeeklyRules ==
    /\ pc = "rules"
    /\ fixed_rules' = expand_rules(rules, sorted_dates(DOMAIN daymap))
    /\ pc' = "activities"
    /\ UNCHANGED << inputs, daymap, activities, all_events, cell_texts, timeVars, drawVars >>

RegularActivities ==
    /\ pc = "activities"
    /\ activities' = place_rows(activities_df, sorted_dates(DOMAIN daymap))
    /\ pc' = "normalize"
    /\ UNCHANGED << inputs, daymap, fixed_rules, all_events, cell_texts, timeVars, drawVars >>

NormalizeTimes ==
    /\ pc = "normalize"
    /\ all_events' = normalize_events(fixed_rules \o activities)
    /\ pc' = "merge"
    /\ UNCHANGED << inputs, daymap, fixed_rules, activities, cell_texts, timeVars, drawVars >>

Merge ==
    /\ pc = "merge"
    /\ daymap' = merge_all(daymap, all_events)
    /\ pc' = "sort"
    /\ UNCHANGED << inputs, fixed_rules, activities, all_events, cell_texts, timeVars, drawVars >>

Sort ==
    /\ pc = "sort"
    /\ daymap' = sort_days(daymap)
    /\ pc' = "done"
    /\ UNCHANGED << inputs, fixed_rules, activities, all_events, cell_texts, timeVars, drawVars >>

\* The text of one event in the preview: f"{t} {title}".strip() writes None
\* as the word None.
str_of(t) == IF t = None THEN <<"N", "o", "n", "e">> ELSE t

StaffPrefix == <<"S", "t", "a", "f", "f", ":", " ">>

RECURSIVE preview_lines(_)
preview_lines(events) ==
    IF events = <<>> THEN <<>>
    ELSE LET ev == Head(events)
             line == CASE ev.notes = "Holiday" -> <<Upper(ev.title)>>
                       [] ev.notes = "staff shift" -> <<StaffPrefix \o ev.title>>
                       [] ev.notes \in {"fixed", "activity"} ->
                            <<Strip(str_of(ev.time) \o <<" ">> \o ev.title)>>
                       [] OTHER -> <<>>
         IN  line \o preview_lines(Tail(events))

\* "\n".join(lines)
RECURSIVE Join(_)
Join(lines) ==
    IF lines = <<>> THEN <<>>
    ELSE IF Len(lines) = 1 THEN lines[1]
    ELSE lines[1] \o <<"\n">> \o Join(Tail(lines))

\* The Preview Calendar button: the day map is computed, then one text blob
\* per date is stored.
Preview ==
    /\ pc = "done"
    /\ cell_texts' = [d \in DOMAIN daymap |-> Join(preview_lines(daymap[d]))]
    /\ pc' = "preview"
    /\ UNCHANGED << inputs, daymap, fixed_rules, activities, all_events, timeVars, drawVars >>

Next ==
    \/ BuildDayMap
    \/ Holidays
    \/ StaffShifts
    \/ FixedWeeklyRules
    \/ RegularActivities
    \/ NormalizeTimes
    \/ Merge
    \/ Sort
    \/ Preview

(***************************************************************************)
(* Inputs.                                                                 *)
(***************************************************************************)
MaxBank == 1
MaxRota == 1
MaxRules == 1
MaxActs == 1

TxtTea == <<"T", "e", "a">>
TxtTeaLower == <<"t", "e", "a", " ">>
TxtArt == <<"A", "r", "t">>
Txt1800 == <<"1", "8", ":", "0", "0">>
Txt1900 == <<"1", "9", ":", "0", "0">>
Txt2359 == <<"2", "3", ":", "5", "9">>
Txt99 == <<"9", "9">>
TxtThu == <<"T", "h", "u">>
TxtMon == <<"M", "o", "n">>
TxtWeekend == <<"s", "a", "t", ";", " ", "S", "u", "n", "d", "a", "y">>

\* November 2025: rules, activities, holidays and a shift that meet on Thursdays.
Thursday == <<2025, 11, 6>>

\* 13 November 2025 is a Thursday too, and World Kindness Day in the static list.
TxtKindness == <<"w","o","r","l","d"," ","k","i","n","d","n","e","s","s"," ","D","A","Y"," ">>

BankEntries == {[date |-> Thursday, title |-> TxtTea],
                [date |-> <<2025, 11, 13>>, title |-> TxtKindness]}

RotaRows == {[date |-> Thursday, staff |-> <<"A", "l", " ", "2">>,
              shift_start |-> <<"9">>, shift_end |-> <<"5">>]}

RuleSet == {[weekday |-> 3, time |-> <<>>, title |-> TxtTea],
            [weekday |-> 3, time |-> Txt1800, title |-> TxtTea],
            [weekday |-> 3, time |-> Txt1900, title |-> TxtTea],
            [weekday |-> 3, time |-> Txt99, title |-> TxtArt]}

ActRows == {[name |-> TxtTeaLower, preferred_days |-> TxtThu, preferred_time |-> t,
             frequency |-> <<"0">>] : t \in {<<>>, Txt1800, Txt2359}}

Init ==
    /\ \E bank \in SeqsUpTo(BankEntries, MaxBank), rota \in SeqsUpTo(RotaRows, MaxRota),
          rls \in SeqsUpTo(RuleSet, MaxRules), acts \in SeqsUpTo(ActRows, MaxActs) :
            PipeStart(2025, 11, bank, rota, rls, acts, TRUE)
    /\ TimeIdle
    /\ DrawIdle

Spec == Init /\ [][Next]_vars

\* Every month of a leap year, a common year and a common century year; a
\* holiday and shifts dated outside the month, a weekly rule, activities with
\* and without a frequency cap.
Years == {2024, 2025, 2100}

next_month(y, m) == IF m = 12 THEN <<y + 1, 1, 1>> ELSE <<y, m + 1, 1>>

MonthBank(y, m) == <<[date |-> next_month(y, m), title |-> TxtTea]>>

MonthRota(y, m) ==
    {[date |-> d, staff |-> <<"A", "l">>, shift_start |-> <<>>, shift_end |-> <<>>] :
        d \in {next_month(y, m), BadDate}}

MonthRule == [weekday |-> 0, time |-> Txt1800, title |-> TxtTea]

MonthAct(p, f) ==
    [name |-> TxtArt, preferred_days |-> p, preferred_time |-> Txt1900, frequency |-> f]

MonthActs == {MonthAct(TxtMon, <<"0">>), MonthAct(TxtMon, <<"5">>),
              MonthAct(TxtWeekend, <<"2">>), MonthAct(TxtWeekend, <<"x">>)}

InitMonths ==
    /\ \E y \in Years, m \in 1..12 :
        \E rota \in SeqsUpTo(MonthRota(y, m), MaxRota),
           acts \in SeqsUpTo(MonthActs, MaxActs) :
            PipeStart(y, m, MonthBank(y, m), rota, <<MonthRule>>, acts, TRUE)
    /\ TimeIdle
    /\ DrawIdle

SpecMonths == InitMonths /\ [][Next]_vars

(***************************************************************************)
(* normalize_time on its own: one call on a free-form text.                *)
(***************************************************************************)
MaxLen == 4

TimeAlphabet == {"0", "2", "9", ":", ".", " ", "P"}

TimeExamples == {<<"2", ":", "3", "0">>, <<"1", "4", ".", "4", "5">>,
                 <<"2", ":", "3", "0", "p", "m">>, <<"1", "4", "3", "0">>,
                 <<"n", "o", "o", "n">>, <<" ", "6", ".", "3", "0", " ">>}

InitTime ==
    /\ t_in \in SeqsUpTo(TimeAlphabet, MaxLen) \cup TimeExamples
    /\ t_out = <<"pending">>
    /\ PipeIdle
    /\ DrawIdle

NormalizeTime ==
    /\ t_out = <<"pending">>
    /\ t_out' = normalize_time(t_in)
    /\ UNCHANGED << t_in, pipeVars, drawVars >>

NextTime == NormalizeTime

SpecTime == InitTime /\ [][NextTime]_vars

(***************************************************************************)
(* draw_calendar_pdf: the cells of the month and the text loop of a cell.  *)
(***************************************************************************)
PageHeight == 2970
TopMargin == 370
BottomMargin == 10
BarLift == 60
BarGap == 15
GridRows == 5
DateDrop == 60
LineSpacing == 40
Budget == 40

bar_y == PageHeight - TopMargin + BarLift

top_of_grid == bar_y - BarGap

grid_h == top_of_grid - BottomMargin

row_h == grid_h \div GridRows

\* calendar.monthcalendar: weeks from Monday, so a day's row and column
\* follow from the weekday of the 1st.
r_idx(y, m, day) == (weekday(<<y, m, 1>>) + day - 1) \div 7

c_idx(y, m, day) == (weekday(<<y, m, 1>>) + day - 1) % 7

cell_y(y, m, day) == BottomMargin + (GridRows - 1 - r_idx(y, m, day)) * row_h

CellY == cell_y(year, month, cell_day)

MaxDrawn == 14
MaxSubs == 2
MaxPieces == 2

InitDraw ==
    /\ year \in Years /\ month \in 1..12
    /\ bank_data = <<>> /\ rota_df = <<>> /\ rules = <<>> /\ activities_df = <<>>
    /\ include_holidays = FALSE /\ daymap = <<>> /\ fixed_rules = <<>>
    /\ activities = <<>> /\ all_events = <<>> /\ pc = "idle" /\ cell_texts = <<>>
    /\ TimeIdle
    /\ cell_day = 0 /\ text_y = 0 /\ subs_left = 0
    /\ drawn = {} /\ last_style = "none" /\ dpc = "cell"

\* The next day of the month: its box and day number are drawn, the cursor
\* starts under the top edge.
BeginCell ==
    /\ dpc = "cell"
    /\ cell_day < monthrange_days(year, month)
    /\ cell_day' = cell_day + 1
    /\ text_y' = cell_y(year, month, cell_day + 1) + row_h - DateDrop
    /\ drawn' = {}
    /\ last_style' = "none"
    /\ subs_left' = 0
    /\ dpc' = "line"
    /\ UNCHANGED << pipeVars, timeVars >>

\* The lines loop reads one more logical line that is not blank;
\* textwrap.wrap gives its sub-lines.
NextLine ==
    /\ dpc = "line"
    /\ Cardinality(drawn) < MaxDrawn
    /\ subs_left' \in 1..MaxSubs
    /\ dpc' = "sub"
    /\ UNCHANGED << cell_day, text_y, drawn, last_style, pipeVars, timeVars >>

\* The cell's text has no more lines.
EndCell ==
    /\ dpc = "line"
    /\ dpc' = "cell"
    /\ UNCHANGED << cell_day, text_y, subs_left, drawn, last_style, pipeVars, timeVars >>

after_sub == IF subs_left = 1 THEN "line" ELSE "sub"

\* An all-uppercase sub-line: wrapped again, each piece drawn and underlined,
\* then `continue`.
DrawHoliday ==
    /\ dpc = "sub"
    /\ \E n \in 1..MaxPieces :
        /\ drawn' = drawn \cup {text_y - k * LineSpacing : k \in 0..(n - 1)}
        /\ text_y' = text_y - n * LineSpacing
    /\ last_style' = "holiday"
    /\ subs_left' = subs_left - 1
    /\ dpc' = after_sub
    /\ UNCHANGED << cell_day, pipeVars, timeVars >>

\* A sub-line starting with "staff:": drawn, then `continue`.
DrawStaff ==
    /\ dpc = "sub"
    /\ drawn' = drawn \cup {text_y}
    /\ text_y' = text_y - LineSpacing
    /\ last_style' = "staff"
    /\ subs_left' = subs_left - 1
    /\ dpc' = after_sub
    /\ UNCHANGED << cell_day, pipeVars, timeVars >>

\* A timed or plain sub-line: drawn, the cursor moved, and the sub-lines loop
\* left when the cursor is under the budget.
draw_checked(style) ==
    /\ dpc = "sub"
    /\ drawn' = drawn \cup {text_y}
    /\ text_y' = text_y - LineSpacing
    /\ last_style' = style
    /\ IF text_y - LineSpacing < CellY + Budget
       THEN subs_left' = 0 /\ dpc' = "line"
       ELSE subs_left' = subs_left - 1 /\ dpc' = after_sub
    /\ UNCHANGED << cell_day, pipeVars, timeVars >>

DrawTimed == draw_checked("timed")

DrawPlain == draw_checked("plain")

NextDraw ==
    \/ BeginCell
    \/ NextLine
    \/ EndCell
    \/ DrawHoliday
    \/ DrawStaff
    \/ DrawTimed
    \/ DrawPlain

SpecDraw == InitDraw /\ [][NextDraw]_vars

(***************************************************************************)
(* Properties.                                                             *)
(***************************************************************************)
ClaimNorm(title) == Lower(Strip(title))

Holds(d, i) == daymap[d][i]

\* C1: in a day cell no sub-line, of any style, is drawn once the cursor is
\* under the cell's budget (text_y < y + 4 mm): every draw of the cell is at
\* or above y + 4 mm.
C1_NoDrawUnderBudget == \A ty \in drawn : ty >= CellY + Budget

\* C2: after every stage the keys of the day map are exactly the calendar
\* dates from day 1 to the last day of the month (29 for a leap February).
ClaimMonthLength(y, m) ==
    CASE m \in {4, 6, 9, 11} -> 30
      [] m = 2 -> IF (y % 4 = 0 /\ y % 100 # 0) \/ y % 400 = 0 THEN 29 ELSE 28
      [] OTHER -> 31

C2_KeysAreTheMonth ==
    pc # "start" =>
        DOMAIN daymap = {<<year, month, d>> : d \in 1..ClaimMonthLength(year, month)}

C2_Witness ==
    /\ pc = "done" /\ year = 2024 /\ month = 2
    /\ Cardinality(DOMAIN daymap) = 29
    /\ \E i \in 1..Len(rota_df) : rota_df[i].date = <<2024, 3, 1>>
    /\ \E i \in 1..Len(bank_data) : bank_data[i].date = <<2024, 3, 1>>
    /\ activities # <<>>

\* C3: in the returned day map no day holds an untimed fixed event together
\* with an activity event of the same (lowercased, trimmed) title at a
\* canonical time: the timed entry outranks the untimed one.
C3_TimedActivityOutranksUntimedFixed ==
    pc = "done" =>
        \A d \in DOMAIN daymap :
            ~ \E i, j \in 1..Len(daymap[d]) :
                /\ Holds(d, i).notes = "fixed" /\ Holds(d, i).time = None
                /\ Holds(d, j).notes = "activity" /\ Holds(d, j).time # None
                /\ Len(Holds(d, j).time) = 5
                /\ ClaimNorm(Holds(d, i).title) = ClaimNorm(Holds(d, j).title)

\* C4: the merge discards a candidate if and only if an event already on its
\* day has the same lowercased, trimmed title and either the same time, or a
\* length-5 time while the candidate has none; otherwise it appends the
\* candidate, so same-title events at different times both stay.
ClaimDiscard(on_day, cand) ==
    LET same == {i \in 1..Len(on_day) : ClaimNorm(on_day[i].title) = ClaimNorm(cand.title)}
    IN  \/ \E i \in same : on_day[i].time = cand.time
        \/ /\ cand.time = None
           /\ \E i \in same : on_day[i].time # None /\ Len(on_day[i].time) = 5

ClaimMergeOne(dm, cand) ==
    IF cand.date \notin DOMAIN dm \/ ClaimDiscard(dm[cand.date], cand) THEN dm
    ELSE [dm EXCEPT ![cand.date] =
            Append(@, [time |-> cand.time, title |-> cand.title, notes |-> cand.notes])]

RECURSIVE ClaimMergeAll(_, _)
ClaimMergeAll(dm, cands) ==
    IF cands = <<>> THEN dm ELSE ClaimMergeAll(ClaimMergeOne(dm, Head(cands)), Tail(cands))

C4_MergeRule == [][pc = "merge" => daymap' = ClaimMergeAll(daymap, all_events)]_vars

C4_Witness ==
    /\ pc = "sort"
    /\ \E d \in DOMAIN daymap : \E i, j \in 1..Len(daymap[d]) :
        /\ Holds(d, i).notes = "fixed" /\ Holds(d, j).notes = "activity"
        /\ ClaimNorm(Holds(d, i).title) = ClaimNorm(Holds(d, j).title)
        /\ Holds(d, i).time = Txt1900 /\ Holds(d, j).time = Txt1800

\* C5 as stated: normalize_time answers a time exactly for the texts that,
\* stripped, lowercased and with '.' for ':', are one or two digits with an
\* optional ":" and two digits after them; a run of three or four digits
\* without a colon has no time.
ClaimCanon(t) == RemoveSpaces(ReplaceDots(Lower(Strip(t))))

DigitsAt(s, lo, hi) == \A i \in lo..hi : s[i] \in Digits

ColonShape(s) ==
    \E h \in 1..2 :
        /\ Len(s) \in {h, h + 3}
        /\ DigitsAt(s, 1, h)
        /\ Len(s) = h + 3 => s[h + 1] = ":" /\ DigitsAt(s, h + 2, h + 3)

C5_ColonRequired ==
    t_out # <<"pending">> => (t_out # None <=> ColonShape(ClaimCanon(t_in)))

\* C5 amended: the colon itself is optional, so the accepted shapes are one or
\* two digits, optionally followed by two digits with or without a ":" before
\* them; the answer is the hour padded to two digits, ":", and the minute
\* ("00" when missing); every other text has no time.
AmendedShape(s, h, c) ==
    /\ Len(s) \in {h, h + c + 2}
    /\ DigitsAt(s, 1, h)
    /\ Len(s) > h => (c = 1 => s[h + 1] = ":") /\ DigitsAt(s, h + c + 1, h + c + 2)

AmendedAnswer(s, h) ==
    (IF h = 1 THEN <<"0", s[1]>> ELSE <<s[1], s[2]>>) \o <<":">>
    \o (IF Len(s) = h THEN <<"0", "0">> ELSE SubSeq(s, Len(s) - 1, Len(s)))

C5_ColonOptional ==
    t_out # <<"pending">> =>
        LET s == ClaimCanon(t_in)
        IN  IF \E h \in 1..2, c \in 0..1 : AmendedShape(s, h, c)
            THEN \E h \in 1..2, c \in 0..1 : AmendedShape(s, h, c) /\ t_out = AmendedAnswer(s, h)
            ELSE t_out = None

C5_Witness ==
    /\ t_in = <<"1", "4", "3", "0">>
    /\ t_out = <<"1", "4", ":", "3", "0">>

\* C6: every event of the returned day map has no time or a zero-padded
\* 24-hour HH:MM time, hour 00..23 and minute 00..59.
IsClockTime(t) ==
    /\ Len(t) = 5 /\ t[3] = ":"
    /\ DigitsAt(t, 1, 2) /\ DigitsAt(t, 4, 5)
    /\ ParseInt(SubSeq(t, 1, 2)) <= 23
    /\ ParseInt(SubSeq(t, 4, 5)) <= 59

C6_TimesAreClockTimes ==
    pc = "done" =>
        \A d \in DOMAIN daymap : \A i \in 1..Len(daymap[d]) :
            Holds(d, i).time = None \/ IsClockTime(Holds(d, i).time)

\* C7: in every day of the returned day map, within a category group an event
\* without a time comes after every timed event of the group.
ClaimGroup(e) ==
    IF e.notes = "Holiday" THEN "holiday"
    ELSE IF e.notes = "staff shift" THEN "staff_shift" ELSE "other"

C7_UntimedAfterTimed ==
    pc = "done" =>
        \A d \in DOMAIN daymap : \A i, j \in 1..Len(daymap[d]) :
            (/\ i < j
             /\ ClaimGroup(Holds(d, i)) = ClaimGroup(Holds(d, j))
             /\ Holds(d, i).time = None)
            => Holds(d, j).time = None

\* C8: in every day of the returned day map all holidays come before all staff
\* shifts, and all staff shifts before all fixed and activity events.
ClaimRank(e) ==
    CASE ClaimGroup(e) = "holiday" -> 0
      [] ClaimGroup(e) = "staff_shift" -> 1
      [] OTHER -> 2

C8_CategoryOrder ==
    pc = "done" =>
        \A d \in DOMAIN daymap : \A i, j \in 1..Len(daymap[d]) :
            i < j => ClaimRank(Holds(d, i)) <= ClaimRank(Holds(d, j))

C8_Witness ==
    /\ pc = "done"
    /\ \E d \in DOMAIN daymap : \E i, j, k \in 1..Len(daymap[d]) :
        /\ Holds(d, i).notes = "Holiday"
        /\ Holds(d, j).notes = "staff shift"
        /\ Holds(d, k).notes \in {"fixed", "activity"}

\* C9: for each activity row the placement loop emits one activity event on
\* each of the first min(frequency, m) dates whose weekday code is preferred,
\* in ascending order (all m of them when frequency is 0), and nowhere else.
ClaimPlacedDates(r, ascending) ==
    LET pref     == pref_days_of(r.preferred_days)
        matching == SelectSeq(ascending, LAMBDA d : dow3(d) \in pref)
        f        == freq_of(r.frequency)
        n        == IF f = 0 \/ f > Len(matching) THEN Len(matching) ELSE f
    IN  SubSeq(matching, 1, n)

C9_FirstFitPlacement ==
    pc \in {"normalize", "done"} =>
        LET ascending == sorted_dates(DOMAIN daymap)
        IN  /\ [i \in 1..Len(activities) |-> activities[i].date]
                 = Flatten([i \in 1..Len(activities_df) |->
                                ClaimPlacedDates(activities_df[i], ascending)])
            /\ \A i \in 1..Len(activities) : activities[i].notes = "activity"

C9_Witness ==
    /\ pc = "done"
    /\ Len(activities_df) = 1
    /\ activities_df[1].frequency = <<"2">>
    /\ Len(activities) = 2
    /\ Cardinality({d \in DOMAIN daymap : dow3(d) \in pref_days_of(activities_df[1].preferred_days)}) > 2

\* C10: no date of the day map holds two holiday events whose titles are equal
\* after trimming and lowercasing, and a holiday that is kept is the first
\* entry of the holiday list with its date and trimmed, lowercased title.
HolidayList ==
    fetch_uk_bank_holidays(bank_data, year, month) \o fetch_awareness_days(year, month)

C10_HolidaysOncePerTitle ==
    pc = "done" =>
        LET list  == HolidayList
            norms == [k \in 1..Len(list) |-> ClaimNorm(list[k].title)]
        IN  \A d \in DOMAIN daymap : \A i \in 1..Len(daymap[d]) :
                Holds(d, i).notes = "Holiday" =>
                    /\ \A j \in 1..Len(daymap[d]) :
                        (j # i /\ Holds(d, j).notes = "Holiday")
                        => ClaimNorm(Holds(d, j).title) # ClaimNorm(Holds(d, i).title)
                    /\ \E k \in 1..Len(list) :
                        /\ list[k].date = d
                        /\ list[k].title = Holds(d, i).title
                        /\ \A l \in 1..(k - 1) : list[l].date = d => norms[l] # norms[k]

C10_Witness ==
    /\ pc = "done"
    /\ \E i \in 1..Len(bank_data) : bank_data[i].title = TxtKindness
    /\ \E i \in 1..Len(daymap[<<2025, 11, 13>>]) :
        /\ Holds(<<2025, 11, 13>>, i).notes = "Holiday"
        /\ Holds(<<2025, 11, 13>>, i).title = clean_text(TxtKindness)
    /\ Cardinality({i \in 1..Len(daymap[<<2025, 11, 13>>]) :
                        Holds(<<2025, 11, 13>>, i).notes = "Holiday"}) = 1

\* C11: every date of the month is drawn in a cell of one of the 5 grid rows
\* (row index 0..4), so the bottom edge of its cell is at or above the bottom
\* margin and its top edge at or below the top of the grid; no date is drawn
\* in a sixth row under the grid.
C11_DatesInGridRows ==
    cell_day >= 1 =>
        /\ r_idx(year, month, cell_day) \in 0..(GridRows - 1)
        /\ CellY >= BottomMargin
        /\ CellY + row_h <= top_of_grid

\* C12: in the text blob of a date, the line of a fixed or activity event
\* without a time is exactly the event's title, nothing in front of it; the
\* line of a timed event is "<time> <title>".
ClaimLine(ev) == IF ev.time = None THEN ev.title ELSE ev.time \o <<" ">> \o ev.title

C12_UntimedLineIsTitle ==
    pc = "preview" =>
        \A d \in DOMAIN daymap :
            LET lines == Split(cell_texts[d], "\n")
            IN  \A i \in 1..Len(daymap[d]) :
                    Holds(d, i).notes \in {"fixed", "activity"} =>
                        /\ i \in 1..Len(lines)
                        /\ lines[i] = ClaimLine(Holds(d, i))
====
